---- MODULE Spec2Model ----
(***************************************************************************)
(* Model of the WebSocket relay of src/openwebui.ts (handleWebSocket):     *)
(* one inbound upgrade request, the upstream handshake, and the message /  *)
(* close / error callbacks registered on the two sockets of the pair.      *)
(* JavaScript callbacks run to completion, so every handler is one action. *)
(* A second specification, RequestSpec, models the path of one inbound     *)
(* request through requestHandler, createProxyHeaders and handleHttp of    *)
(* src/openwebui.ts and through the handler of src/deepsearch.ts.          *)
(***************************************************************************)
EXTENDS Integers, Sequences, FiniteSets, TLC

\* ---------------------------------------------------------------- bounds
\* Largest number of message events delivered on one socket.
MaxMsgs == 2

\* ------------------------------------------------------------- constants
\* Close code the relay uses for failures (errorHandler and the catch block).
AbnormalCode == 1011
\* The close event that follows an error event: no close frame was received.
AfterErrorEvent == <<1006, "">>

Sides == {"client", "server"}
\* Message events: event.data is a string (text frame) or bytes (binary frame).
Msgs == {[kind |-> "text", data |-> "a"], [kind |-> "binary", data |-> "a"],
         [kind |-> "text", data |-> "b"]}
\* Close events a peer can report: <<code, reason>>.
CloseEvents == {<<1000, "done">>, <<1001, "">>}

ReadyStates == {"NONE", "CONNECTING", "OPEN", "CLOSING", "CLOSED"}

VARIABLES
    pc,               \* position of handleWebSocket: "start", "awaitFetch", "returned"
    response,         \* what handleWebSocket returned: "none", "101", "502"
    serverResponse,   \* outcome of the upstream fetch: "none", "rejected", "plain", "webSocket"
    upstreamBodyOpen, \* the non-upgrade upstream response is still held open
    clientSocket,     \* clientSocket.readyState
    serverSocket,     \* serverSocket.readyState ("NONE" while there is no upstream socket)
    handlers,         \* onmessage/onclose/onerror are registered on both sockets
    clientCloseCalls, \* close(code, reason) calls the relay made on clientSocket
    serverCloseCalls, \* close(code, reason) calls the relay made on serverSocket
    clientFrames,     \* close frames that actually went out to the client peer
    fromClient,       \* message events handled on clientSocket, in order
    fromServer,       \* message events handled on serverSocket, in order
    toServer,         \* serverSocket.send calls, in order
    toClient,         \* clientSocket.send calls, in order
    pendingClose,     \* side whose error event is still to be followed by its close event
    closureBegun,     \* closeHandler has run at least once
    errorHandled,     \* errorHandler has run at least once
    last,             \* the most recent handler invocation
    rpc,              \* position of the request: "idle", "start", "resolved", "headers",
                      \* "fetching", "streaming", "done"
    req,              \* the inbound request: handler, url, headers, remoteAddr
    target,           \* the configured target origin
    targetUrl,        \* the resolved upstream URL
    route,            \* "none", "http" or "websocket"
    proxyHeaders,     \* the outbound header set
    upstreamCalls,    \* number of requests made to the upstream
    upstreamOpen,     \* an upstream connection of this request is open
    upstreamAnswer,   \* what the upstream answered to the first call
    clientResponses,  \* the responses the handler returned to the caller
    clientGone        \* the caller has disconnected

wsVars == <<pc, response, serverResponse, upstreamBodyOpen, clientSocket, serverSocket,
            handlers, clientCloseCalls, serverCloseCalls, clientFrames,
            fromClient, fromServer, toServer, toClient,
            pendingClose, closureBegun, errorHandled, last>>

reqVars == <<rpc, req, target, targetUrl, route, proxyHeaders,
             upstreamCalls, upstreamOpen, upstreamAnswer, clientResponses, clientGone>>

vars == <<wsVars, reqVars>>

NoEvent == [kind |-> "none"]

\* ------------------------------------------------------- WebSocket object
\* WebSocket.close(): a CONNECTING or OPEN socket starts closing, a CLOSING or
\* CLOSED one is left alone.
CloseSocket(readyState) ==
    IF readyState \in {"CONNECTING", "OPEN"} THEN "CLOSING" ELSE readyState

\* A close frame reaches the peer only when close() is called on an OPEN socket.
SendsCloseFrame(readyState) == readyState = "OPEN"

\* ------------------------------------------------------------- the relay
\* forward: `if (to.readyState === WebSocket.OPEN)`
CanSendAnyState(readyState) == TRUE
CanSendNotClosed(readyState) == readyState # "CLOSED"
CanSend(readyState) == readyState = "OPEN"

\* forward: `to.send(event.data)` hands over the event's data as it came.
ForwardedData(m) == m

\* to.send(): the transport delivers sends in call order.
SendFirst(q, e) == <<e>> \o q
Send(q, e) == Append(q, e)

\* closeHandler: `if (x.readyState === WebSocket.OPEN) x.close(...)`
ShouldCloseNever(readyState) == FALSE
ShouldCloseNotClosed(readyState) == readyState # "CLOSED"
ShouldClose(readyState) == readyState = "OPEN"

\* closeHandler: `x.close(event.code, event.reason)`
CloseArgsNormal(code, reason) == <<1000, "">>
CloseArgs(code, reason) == <<code, reason>>

\* errorHandler: `{ code: 1011, reason: `${side} error` }`
ErrorCloseEvent(side) == <<AbnormalCode, side \o " error">>

\* `return new Response("WebSocket handshake failed with target server.",
\* { status: 502 })` on the non-upgrade path.
RefusedResponseUpgrade == "101"
RefusedResponse == "502"

TypeOK ==
    /\ pc \in {"start", "awaitFetch", "returned"}
    /\ response \in {"none", "101", "502"}
    /\ serverResponse \in {"none", "rejected", "plain", "webSocket"}
    /\ upstreamBodyOpen \in BOOLEAN
    /\ clientSocket \in ReadyStates
    /\ serverSocket \in ReadyStates
    /\ handlers \in BOOLEAN
    /\ pendingClose \in Sides \cup {"none"}
    /\ closureBegun \in BOOLEAN
    /\ errorHandled \in BOOLEAN

WsInit ==
    /\ pc = "start"
    /\ response = "none"
    /\ serverResponse = "none"
    /\ upstreamBodyOpen = FALSE
    /\ clientSocket = "NONE"
    /\ serverSocket = "NONE"
    /\ handlers = FALSE
    /\ clientCloseCalls = <<>>
    /\ serverCloseCalls = <<>>
    /\ clientFrames = <<>>
    /\ fromClient = <<>>
    /\ fromServer = <<>>
    /\ toServer = <<>>
    /\ toClient = <<>>
    /\ pendingClose = "none"
    /\ closureBegun = FALSE
    /\ errorHandled = FALSE
    /\ last = NoEvent

\* No request is in the HTTP relay.
RequestIdle ==
    /\ rpc = "idle"
    /\ req = "none"
    /\ target = "none"
    /\ targetUrl = "none"
    /\ route = "none"
    /\ proxyHeaders = "none"
    /\ upstreamCalls = 0
    /\ upstreamOpen = FALSE
    /\ upstreamAnswer = [kind |-> "none"]
    /\ clientResponses = <<>>
    /\ clientGone = FALSE

Init == WsInit /\ RequestIdle

\* `const { socket: clientSocket, response } = Deno.upgradeWebSocket(req)`:
\* the socket exists but stays CONNECTING until the response is returned.
UpgradeWebSocket ==
    /\ pc = "start"
    /\ pc' = "awaitFetch"
    /\ clientSocket' = "CONNECTING"
    /\ UNCHANGED <<response, serverResponse, upstreamBodyOpen, serverSocket, handlers,
                   clientCloseCalls, serverCloseCalls, clientFrames,
                   fromClient, fromServer, toServer, toClient,
                   pendingClose, closureBegun, errorHandled, last>>
    /\ UNCHANGED reqVars

\* The upstream fetch rejects: the catch block closes the client socket with
\* 1011 and returns a 502 response.
FetchRejects ==
    /\ pc = "awaitFetch"
    /\ pc' = "returned"
    /\ serverResponse' = "rejected"
    /\ clientCloseCalls' = Append(clientCloseCalls, <<AbnormalCode, "Upstream connection error">>)
    /\ clientFrames' = IF SendsCloseFrame(clientSocket)
                         THEN Append(clientFrames, <<AbnormalCode, "Upstream connection error">>)
                         ELSE clientFrames
    /\ clientSocket' = CloseSocket(clientSocket)
    /\ response' = "502"
    /\ UNCHANGED <<upstreamBodyOpen, serverSocket, handlers, serverCloseCalls,
                   fromClient, fromServer, toServer, toClient,
                   pendingClose, closureBegun, errorHandled, last>>
    /\ UNCHANGED reqVars

\* The upstream answers without a webSocket: the relay logs and returns 502.
\* Neither clientSocket nor serverResponse is touched on this path.
FetchNoUpgrade ==
    /\ pc = "awaitFetch"
    /\ pc' = "returned"
    /\ serverResponse' = "plain"
    /\ upstreamBodyOpen' = TRUE
    /\ response' = RefusedResponse
    /\ UNCHANGED <<clientSocket, serverSocket, handlers,
                   clientCloseCalls, serverCloseCalls, clientFrames,
                   fromClient, fromServer, toServer, toClient,
                   pendingClose, closureBegun, errorHandled, last>>
    /\ UNCHANGED reqVars

\* The upstream answers with a webSocket: the handlers are registered on both
\* sockets and the prepared upgrade response is returned.
FetchUpgrade ==
    /\ pc = "awaitFetch"
    /\ pc' = "returned"
    /\ serverResponse' = "webSocket"
    /\ serverSocket' = "OPEN"
    /\ handlers' = TRUE
    /\ response' = "101"
    /\ UNCHANGED <<upstreamBodyOpen, clientSocket,
                   clientCloseCalls, serverCloseCalls, clientFrames,
                   fromClient, fromServer, toServer, toClient,
                   pendingClose, closureBegun, errorHandled, last>>
    /\ UNCHANGED reqVars

\* The transport sends the returned upgrade response; only then does the
\* client socket become OPEN.
TransportOpen ==
    /\ response = "101"
    /\ pendingClose = "none"
    /\ clientSocket = "CONNECTING"
    /\ clientSocket' = "OPEN"
    /\ UNCHANGED <<pc, response, serverResponse, upstreamBodyOpen, serverSocket, handlers,
                   clientCloseCalls, serverCloseCalls, clientFrames,
                   fromClient, fromServer, toServer, toClient,
                   pendingClose, closureBegun, errorHandled, last>>
    /\ UNCHANGED reqVars

\* A socket delivers message events while it is OPEN or CLOSING.
Receiving(readyState) == readyState \in {"OPEN", "CLOSING"}

\* from.onmessage for forward(clientSocket, serverSocket, ...)
ClientMessage(m) ==
    /\ handlers
    /\ pendingClose = "none"
    /\ Receiving(clientSocket)
    /\ Len(fromClient) < MaxMsgs
    /\ fromClient' = Append(fromClient, [msg |-> m, destOpen |-> serverSocket = "OPEN"])
    /\ toServer' = IF CanSend(serverSocket)
                     THEN Send(toServer, [msg |-> ForwardedData(m), at |-> Len(fromClient) + 1])
                     ELSE toServer
    /\ last' = [kind |-> "message", side |-> "client", msg |-> m,
                destBefore |-> serverSocket, sent |-> Len(toServer') - Len(toServer)]
    /\ UNCHANGED <<pc, response, serverResponse, upstreamBodyOpen, clientSocket, serverSocket,
                   handlers, clientCloseCalls, serverCloseCalls, clientFrames,
                   fromServer, toClient, pendingClose, closureBegun, errorHandled>>
    /\ UNCHANGED reqVars

\* from.onmessage for forward(serverSocket, clientSocket, ...)
ServerMessage(m) ==
    /\ handlers
    /\ pendingClose = "none"
    /\ Receiving(serverSocket)
    /\ Len(fromServer) < MaxMsgs
    /\ fromServer' = Append(fromServer, [msg |-> m, destOpen |-> clientSocket = "OPEN"])
    /\ toClient' = IF CanSend(clientSocket)
                     THEN Send(toClient, [msg |-> ForwardedData(m), at |-> Len(fromServer) + 1])
                     ELSE toClient
    /\ last' = [kind |-> "message", side |-> "server", msg |-> m,
                destBefore |-> clientSocket, sent |-> Len(toClient') - Len(toClient)]
    /\ UNCHANGED <<pc, response, serverResponse, upstreamBodyOpen, clientSocket, serverSocket,
                   handlers, clientCloseCalls, serverCloseCalls, clientFrames,
                   fromClient, toServer, pendingClose, closureBegun, errorHandled>>
    /\ UNCHANGED reqVars

\* closeHandler(event, side), run with the ready states cs and ss the two
\* sockets have when the event is dispatched.
closeHandler(kind, code, reason, side, cs, ss) ==
    /\ clientSocket' = IF ShouldClose(cs) THEN CloseSocket(cs) ELSE cs
    /\ serverSocket' = IF ShouldClose(ss) THEN CloseSocket(ss) ELSE ss
    /\ clientCloseCalls' = IF ShouldClose(cs)
                             THEN Append(clientCloseCalls, CloseArgs(code, reason))
                             ELSE clientCloseCalls
    /\ clientFrames' = IF ShouldClose(cs) /\ SendsCloseFrame(cs)
                         THEN Append(clientFrames, CloseArgs(code, reason))
                         ELSE clientFrames
    /\ serverCloseCalls' = IF ShouldClose(ss)
                             THEN Append(serverCloseCalls, CloseArgs(code, reason))
                             ELSE serverCloseCalls
    /\ closureBegun' = TRUE
    /\ last' = [kind |-> kind, side |-> side, code |-> code, reason |-> reason,
                clientBefore |-> cs, serverBefore |-> ss,
                clientAfter |-> clientSocket', serverAfter |-> serverSocket',
                clientCalls |-> Len(clientCloseCalls') - Len(clientCloseCalls),
                serverCalls |-> Len(serverCloseCalls') - Len(serverCloseCalls)]

\* clientSocket.onclose: the socket is CLOSED when its close event fires.
ClientClose(ev) ==
    /\ handlers
    /\ pendingClose = "none"
    /\ clientSocket \in {"OPEN", "CLOSING"}
    /\ closeHandler("close", ev[1], ev[2], "client", "CLOSED", serverSocket)
    /\ UNCHANGED <<pc, response, serverResponse, upstreamBodyOpen, handlers,
                   fromClient, fromServer, toServer, toClient, pendingClose, errorHandled>>
    /\ UNCHANGED reqVars

\* serverSocket.onclose
ServerClose(ev) ==
    /\ handlers
    /\ pendingClose = "none"
    /\ serverSocket \in {"OPEN", "CLOSING"}
    /\ closeHandler("close", ev[1], ev[2], "server", clientSocket, "CLOSED")
    /\ UNCHANGED <<pc, response, serverResponse, upstreamBodyOpen, handlers,
                   fromClient, fromServer, toServer, toClient, pendingClose, errorHandled>>
    /\ UNCHANGED reqVars

\* clientSocket.onerror -> errorHandler(e, "client"): the failed socket is
\* CLOSED when the error event fires, and its close event follows.
ClientError ==
    /\ handlers
    /\ pendingClose = "none"
    /\ clientSocket \in {"OPEN", "CLOSING"}
    /\ closeHandler("error", ErrorCloseEvent("client")[1], ErrorCloseEvent("client")[2],
                    "client", "CLOSED", serverSocket)
    /\ pendingClose' = "client"
    /\ errorHandled' = TRUE
    /\ UNCHANGED <<pc, response, serverResponse, upstreamBodyOpen, handlers,
                   fromClient, fromServer, toServer, toClient>>
    /\ UNCHANGED reqVars

\* serverSocket.onerror -> errorHandler(e, "server")
ServerError ==
    /\ handlers
    /\ pendingClose = "none"
    /\ serverSocket \in {"OPEN", "CLOSING"}
    /\ closeHandler("error", ErrorCloseEvent("server")[1], ErrorCloseEvent("server")[2],
                    "server", clientSocket, "CLOSED")
    /\ pendingClose' = "server"
    /\ errorHandled' = TRUE
    /\ UNCHANGED <<pc, response, serverResponse, upstreamBodyOpen, handlers,
                   fromClient, fromServer, toServer, toClient>>
    /\ UNCHANGED reqVars

\* The close event that the runtime fires right after an error event.
CloseAfterError ==
    /\ pendingClose # "none"
    /\ closeHandler("close", AfterErrorEvent[1], AfterErrorEvent[2], pendingClose,
                    clientSocket, serverSocket)
    /\ pendingClose' = "none"
    /\ UNCHANGED <<pc, response, serverResponse, upstreamBodyOpen, handlers,
                   fromClient, fromServer, toServer, toClient, errorHandled>>
    /\ UNCHANGED reqVars

Next ==
    \/ UpgradeWebSocket
    \/ FetchRejects
    \/ FetchNoUpgrade
    \/ FetchUpgrade
    \/ TransportOpen
    \/ \E m \in Msgs : ClientMessage(m)
    \/ \E m \in Msgs : ServerMessage(m)
    \/ \E ev \in CloseEvents : ClientClose(ev)
    \/ \E ev \in CloseEvents : ServerClose(ev)
    \/ ClientError
    \/ ServerError
    \/ CloseAfterError

Spec == Init /\ [][Next]_vars

\* ================================================================ requests
\* ------------------------------------------------------- Headers and URL
\* Header names are case-insensitive: a Headers object keys them in lower case.
LowerCase ==
    [n \in {"Host", "host", "Origin", "X-Forwarded-For", "X-Forwarded-Proto",
            "User-Agent", "sec-ch-ua-mobile", "upgrade", "Location",
            "Access-Control-Allow-Origin", "Vary",
            "Access-Control-Allow-Credentials", "Content-Encoding",
            "websocket", "WebSocket", "h2c"} |->
        CASE n = "Host" -> "host"
          [] n = "Origin" -> "origin"
          [] n = "X-Forwarded-For" -> "x-forwarded-for"
          [] n = "X-Forwarded-Proto" -> "x-forwarded-proto"
          [] n = "User-Agent" -> "user-agent"
          [] n = "Location" -> "location"
          [] n = "Access-Control-Allow-Origin" -> "access-control-allow-origin"
          [] n = "Vary" -> "vary"
          [] n = "Access-Control-Allow-Credentials" -> "access-control-allow-credentials"
          [] n = "Content-Encoding" -> "content-encoding"
          [] n = "WebSocket" -> "websocket"
          [] OTHER -> n]

\* String.prototype.toLowerCase on the strings that occur.
ToLowerCase(str) == IF str \in DOMAIN LowerCase THEN LowerCase[str] ELSE str

\* Headers.has / get / set / delete; get answers null for a missing header.
Null == "<null>"
HasHeader(h, name) == ToLowerCase(name) \in DOMAIN h
GetHeader(h, name) == IF HasHeader(h, name) THEN h[ToLowerCase(name)] ELSE Null
AppendHeader(h, name, value) ==
    [k \in DOMAIN h \cup {ToLowerCase(name)} |->
        IF k = ToLowerCase(name)
          THEN (IF k \in DOMAIN h THEN h[k] \o ", " \o value ELSE value)
          ELSE h[k]]
SetHeader(h, name, value) ==
    [k \in DOMAIN h \cup {ToLowerCase(name)} |->
        IF k = ToLowerCase(name) THEN value ELSE h[k]]
DeleteHeader(h, name) == [k \in DOMAIN h \ {ToLowerCase(name)} |-> h[k]]

\* `protocol.slice(0, -1)`: the protocol without its trailing colon.
SliceLast(protocol) ==
    CASE protocol = "http:" -> "http"
      [] protocol = "https:" -> "https"
      [] protocol = "ws:" -> "ws"
      [] protocol = "wss:" -> "wss"

\* URL.origin: scheme "://" host, for http, https, ws and wss alike.
UrlOrigin(url) == SliceLast(url.protocol) \o "://" \o url.host

\* The User-Agent values createProxyHeaders falls back to.
MobileUA == "Mozilla/5.0 (Linux; Android 10; K) Mobile"
DesktopUA == "Mozilla/5.0 (Windows NT 10.0; Win64; x64)"

\* createProxyHeaders(originalHeaders, targetUrl, remoteAddr)
createProxyHeaders(originalHeaders, url, remoteAddr) ==
    LET h1 == SetHeader(originalHeaders, "Host", url.host)
        h2 == SetHeader(h1, "Origin", UrlOrigin(url))
        h3 == SetHeader(h2, "X-Forwarded-For", remoteAddr)
        h4 == SetHeader(h3, "X-Forwarded-Proto", SliceLast(url.protocol))
        isMobile == GetHeader(h4, "sec-ch-ua-mobile") = "?1"
    IN  IF ~HasHeader(h4, "User-Agent")
          THEN SetHeader(h4, "User-Agent", IF isMobile THEN MobileUA ELSE DesktopUA)
          ELSE h4

\* deepsearch.ts handler: `new Headers(req.headers)` with "host" set.
DeepsearchHeaders(originalHeaders, url) == SetHeader(originalHeaders, "host", url.host)

\* requestHandler: `targetUrl.protocol === "https:" ? "wss:" : "ws:"`
WsProtocolPlain(protocol) == "ws:"
WsProtocol(protocol) == IF protocol = "https:" THEN "wss:" ELSE "ws:"

\* requestHandler: `req.headers.get("upgrade")?.toLowerCase() === "websocket"`
IsUpgrade(headers) ==
    /\ HasHeader(headers, "upgrade")
    /\ ToLowerCase(GetHeader(headers, "upgrade")) = "websocket"

\* The target URL with the request's pathname and search copied onto it.
WithPathAndSearch(base, url) ==
    [protocol |-> base.protocol, host |-> base.host,
     pathname |-> url.pathname, search |-> url.search]

\* requestHandler (openwebui.ts) and the head of handler (deepsearch.ts):
\* only openwebui.ts looks at the upgrade header.
ResolveTargetUrl(r, t) ==
    LET u == WithPathAndSearch(t, r.url)
    IN  IF r.handler = "openwebui" /\ IsUpgrade(r.headers)
          THEN [u EXCEPT !.protocol = WsProtocol(u.protocol)]
          ELSE u

ResolveRoute(r) ==
    IF r.handler = "openwebui" /\ IsUpgrade(r.headers) THEN "websocket" ELSE "http"

\* ---------------------------------------------------------------- inputs
\* Targets given to openwebui.ts with --target; deepsearch.ts has its own.
Targets == {[protocol |-> "http:", host |-> "up.example:8000"],
            [protocol |-> "https:", host |-> "up.example"]}
DeepsearchTarget == [protocol |-> "https:", host |-> "deep-research.a792494425.buzz"]

InboundUrls ==
    [protocol : {"http:", "https:"}, host : {"127.0.0.1:8080"},
     pathname : {"/", "/api/x"}, search : {"", "?q=1"}]

\* Optional inbound headers and the values tried for each (Null: absent).
OptionalHeaders ==
    [origin : {Null, "", "https://app.example"},
     ua : {Null, "curl/8"},
     mobile : {Null, "?1"},
     xff : {Null, "10.0.0.1"},
     upgrade : {Null, "websocket", "WebSocket", "h2c"}]

\* The Headers object of a request sent to `host` with the options o.
InboundHeaders(host, o) ==
    LET names == {"host"}
                 \cup (IF o.origin # Null THEN {"origin"} ELSE {})
                 \cup (IF o.ua # Null THEN {"user-agent"} ELSE {})
                 \cup (IF o.mobile # Null THEN {"sec-ch-ua-mobile"} ELSE {})
                 \cup (IF o.xff # Null THEN {"x-forwarded-for", "x-forwarded-proto"} ELSE {})
                 \cup (IF o.upgrade # Null THEN {"upgrade"} ELSE {})
    IN  [k \in names |->
            CASE k = "host" -> host
              [] k = "origin" -> o.origin
              [] k = "user-agent" -> o.ua
              [] k = "sec-ch-ua-mobile" -> o.mobile
              [] k = "x-forwarded-for" -> o.xff
              [] k = "x-forwarded-proto" -> "spoofed"
              [] k = "upgrade" -> o.upgrade]

RemoteAddr == "203.0.113.9"

RequestInit ==
    /\ WsInit
    /\ rpc = "start"
    /\ \E handler \in {"openwebui", "deepsearch"}, url \in InboundUrls, o \in OptionalHeaders :
          req = [handler |-> handler, url |-> url,
                 headers |-> InboundHeaders(url.host, o), remoteAddr |-> RemoteAddr]
    /\ target \in (IF req.handler = "deepsearch" THEN {DeepsearchTarget} ELSE Targets)
    /\ targetUrl = "none"
    /\ route = "none"
    /\ proxyHeaders = "none"
    /\ upstreamCalls = 0
    /\ upstreamOpen = FALSE
    /\ upstreamAnswer = [kind |-> "none"]
    /\ clientResponses = <<>>
    /\ clientGone = FALSE

\* requestHandler / handler: resolve the upstream URL and pick the relay.
RequestHandler ==
    /\ rpc = "start"
    /\ rpc' = "resolved"
    /\ targetUrl' = ResolveTargetUrl(req, target)
    /\ route' = ResolveRoute(req)
    /\ UNCHANGED <<req, target, proxyHeaders, upstreamCalls, upstreamOpen,
                   upstreamAnswer, clientResponses, clientGone>>
    /\ UNCHANGED wsVars

\* handleHttp / handleWebSocket / handler: build the outbound headers.
CreateProxyHeaders ==
    /\ rpc = "resolved"
    /\ rpc' = "headers"
    /\ proxyHeaders' = IF req.handler = "openwebui"
                         THEN createProxyHeaders(req.headers, targetUrl, req.remoteAddr)
                         ELSE DeepsearchHeaders(req.headers, targetUrl)
    /\ UNCHANGED <<req, target, targetUrl, route, upstreamCalls, upstreamOpen,
                   upstreamAnswer, clientResponses, clientGone>>
    /\ UNCHANGED wsVars

\* ------------------------------------------------------------ HTTP relay
\* What the upstream can answer: [status, headers].
UpstreamAnswers ==
    {[status |-> 200,
      headers |-> ("content-type" :> "text/html" @@ "content-encoding" :> "gzip"
                   @@ "vary" :> "Accept-Encoding")],
     [status |-> 302, headers |-> ("location" :> "/x")],
     [status |-> 404,
      headers |-> ("access-control-allow-origin" :> "https://other.example")]}

\* What the upstream answers to the request a followed redirect leads to.
FollowedAnswer == [status |-> 200, headers |-> ("content-type" :> "text/html")]

\* error.message of a rejected fetch.
ErrorMessages == {"connection refused", ""}

\* fetch option `redirect: "manual"`
RedirectModeFollow == "follow"
RedirectMode == "manual"

IsRedirect(answer) == answer.status \in 300..399 /\ HasHeader(answer.headers, "Location")

\* fetch: with redirect "follow" a redirect answer leads to a second upstream
\* request and its answer is what fetch resolves with; with "manual" fetch
\* resolves with the redirect answer itself.
FetchFollows(answer) == RedirectMode = "follow" /\ IsRedirect(answer)
FetchResult(answer) == IF FetchFollows(answer) THEN FollowedAnswer ELSE answer

\* handleHttp: the CORS headers set on the copy of the upstream's headers.
\* `if (requestOrigin)` is false for a missing and for an empty Origin.
CorsHeadersWildcard(responseHeaders, requestOrigin) ==
    SetHeader(SetHeader(responseHeaders, "Access-Control-Allow-Origin", "*"),
              "Access-Control-Allow-Credentials", "true")
CorsHeaders(responseHeaders, requestOrigin) ==
    LET h == IF requestOrigin \notin {Null, ""}
               THEN SetHeader(SetHeader(responseHeaders,
                                        "Access-Control-Allow-Origin", requestOrigin),
                              "Vary", "Origin")
               ELSE SetHeader(responseHeaders, "Access-Control-Allow-Origin", "*")
    IN  SetHeader(h, "Access-Control-Allow-Credentials", "true")

\* The Response built from the upstream's response: handleHttp sets the CORS
\* headers and deletes Content-Encoding, deepsearch.ts copies the headers.
RelayedResponse(r, res) ==
    [status |-> res.status,
     headers |-> IF r.handler = "openwebui"
                   THEN DeleteHeader(CorsHeaders(res.headers, GetHeader(r.headers, "Origin")),
                                     "Content-Encoding")
                   ELSE res.headers,
     body |-> "response.body"]

\* The Response of the catch block: status 502 and a text body (the literal
\* of deepsearch.ts is Chinese for "proxy server error").
ErrorResponseEmpty(handler, message) ==
    [status |-> 500, headers |-> ("content-type" :> "text/plain;charset=UTF-8"), body |-> ""]
ErrorResponse(handler, message) ==
    [status |-> 502,
     headers |-> ("content-type" :> "text/plain;charset=UTF-8"),
     body |-> IF handler = "openwebui" THEN "Proxy Error: " \o message
                                       ELSE "proxy server error"]

\* `await fetch(targetUrl.toString(), { method, headers, body, redirect })`:
\* the upstream call is made; no abort signal is passed.
HttpFetch ==
    /\ rpc = "headers"
    /\ route = "http"
    /\ rpc' = "fetching"
    /\ upstreamCalls' = upstreamCalls + 1
    /\ upstreamOpen' = TRUE
    /\ UNCHANGED <<req, target, targetUrl, route, proxyHeaders,
                   upstreamAnswer, clientResponses, clientGone>>
    /\ UNCHANGED wsVars

\* fetch resolves and the handler returns the relayed response. The body is
\* streamed from the upstream; a caller that is already gone makes the
\* transport drop the response and cancel its body.
HttpFetchResolves(answer) ==
    /\ rpc = "fetching"
    /\ upstreamAnswer' = [kind |-> "response", status |-> answer.status,
                          headers |-> answer.headers]
    /\ upstreamCalls' = upstreamCalls + (IF FetchFollows(answer) THEN 1 ELSE 0)
    /\ clientResponses' = Append(clientResponses, RelayedResponse(req, FetchResult(answer)))
    /\ rpc' = IF clientGone THEN "done" ELSE "streaming"
    /\ upstreamOpen' = ~clientGone
    /\ UNCHANGED <<req, target, targetUrl, route, proxyHeaders, clientGone>>
    /\ UNCHANGED wsVars

\* fetch rejects: the catch block logs and returns the error response.
HttpFetchRejects(message) ==
    /\ rpc = "fetching"
    /\ upstreamAnswer' = [kind |-> "rejected", message |-> message]
    /\ clientResponses' = Append(clientResponses, ErrorResponse(req.handler, message))
    /\ rpc' = "done"
    /\ upstreamOpen' = FALSE
    /\ UNCHANGED <<req, target, targetUrl, route, proxyHeaders, upstreamCalls, clientGone>>
    /\ UNCHANGED wsVars

\* The caller disconnects. While the response body is streamed the transport
\* cancels response.body, which is the upstream's body; while fetch is pending
\* nothing reaches the upstream call.
ClientCancel ==
    /\ rpc \in {"fetching", "streaming"}
    /\ ~clientGone
    /\ clientGone' = TRUE
    /\ rpc' = IF rpc = "streaming" THEN "done" ELSE rpc
    /\ upstreamOpen' = IF rpc = "streaming" THEN FALSE ELSE upstreamOpen
    /\ UNCHANGED <<req, target, targetUrl, route, proxyHeaders, upstreamCalls,
                   upstreamAnswer, clientResponses>>
    /\ UNCHANGED wsVars

\* The response body has been streamed to its end.
BodyDone ==
    /\ rpc = "streaming"
    /\ rpc' = "done"
    /\ upstreamOpen' = FALSE
    /\ UNCHANGED <<req, target, targetUrl, route, proxyHeaders, upstreamCalls,
                   upstreamAnswer, clientResponses, clientGone>>
    /\ UNCHANGED wsVars

RequestNext ==
    \/ RequestHandler
    \/ CreateProxyHeaders
    \/ HttpFetch
    \/ \E answer \in UpstreamAnswers : HttpFetchResolves(answer)
    \/ \E message \in ErrorMessages : HttpFetchRejects(message)
    \/ ClientCancel
    \/ BodyDone

RequestSpec == RequestInit /\ [][RequestNext]_vars

\* ------------------------------------------------------------ properties
PairCreated == handlers

LastClientCall == clientCloseCalls[Len(clientCloseCalls)]
LastServerCall == serverCloseCalls[Len(serverCloseCalls)]

C2_ErrorClosesBoth ==
    /\ last.kind = "error" =>
          /\ last.code = 1011
          /\ last.reason = (IF last.side = "client" THEN "client error" ELSE "server error")
    /\ errorHandled => (clientSocket # "OPEN" /\ serverSocket # "OPEN")

C4_RefusedUpgradeClosesClient ==
    serverResponse = "plain" =>
        /\ clientSocket \in {"CLOSING", "CLOSED"}
        /\ \E i \in 1..Len(clientCloseCalls) : clientCloseCalls[i][1] = AbnormalCode

\* C5: when the upstream handshake fetch rejects, the relay calls
\* close(1011, ...) on the client socket and the client observes a closure
\* with code 1011.
C5_UnreachableClosesClientWith1011 ==
    serverResponse = "rejected" =>
        /\ \E i \in 1..Len(clientCloseCalls) : clientCloseCalls[i][1] = AbnormalCode
        /\ \E i \in 1..Len(clientFrames) : clientFrames[i][1] = AbnormalCode

\* C6: a relay is never left half-open: once a close or error event has been
\* handled there is no quiescent state with one leg closed and the other open.
C6_NeverHalfOpen ==
    (PairCreated /\ closureBegun /\ pendingClose = "none") =>
        /\ ~(serverSocket = "CLOSED" /\ clientSocket = "OPEN")
        /\ ~(clientSocket = "CLOSED" /\ serverSocket = "OPEN")

\* The sends recorded in `sent` are exactly the events of `received` whose
\* destination was OPEN, each once and with the event's own data.
ForwardedExactly(received, sent) ==
    /\ \A j \in 1..Len(sent) :
          /\ sent[j].at \in 1..Len(received)
          /\ received[sent[j].at].destOpen
          /\ sent[j].msg = received[sent[j].at].msg
    /\ \A i \in 1..Len(received) :
          Cardinality({j \in 1..Len(sent) : sent[j].at = i})
              = (IF received[i].destOpen THEN 1 ELSE 0)

\* C7: a message received on one socket is sent to the other socket unchanged
\* (same payload, same text/binary kind) exactly once if and only if the
\* destination is OPEN when the event is handled; otherwise it is never sent.
C7_ForwardIffDestinationOpen ==
    /\ ForwardedExactly(fromClient, toServer)
    /\ ForwardedExactly(fromServer, toClient)
    /\ last.kind = "message" =>
          last.sent = (IF last.destBefore = "OPEN" THEN 1 ELSE 0)

\* An upstream message arrived while the client was still connecting and was
\* dropped; a later binary one was forwarded once the client was OPEN.
C7_Witness ==
    /\ Len(fromServer) = 2
    /\ ~fromServer[1].destOpen
    /\ fromServer[2].destOpen /\ fromServer[2].msg.kind = "binary"
    /\ Len(toClient) = 1 /\ toClient[1].msg = fromServer[2].msg

\* The sends of one direction follow the order of the events they come from.
InReceiveOrder(sent) ==
    \A j, k \in 1..Len(sent) : j < k => sent[j].at < sent[k].at

\* C8: in each direction the messages sent to the destination are in the
\* order in which they were received from the source, without duplicates.
C8_OrderPreserved ==
    /\ InReceiveOrder(toServer)
    /\ InReceiveOrder(toClient)

\* Two different client messages were both forwarded to the upstream.
C8_Witness ==
    /\ Len(toServer) = 2
    /\ toServer[1].msg # toServer[2].msg
    /\ toServer[1].msg = fromClient[1].msg
    /\ toServer[2].msg = fromClient[2].msg

\* C9: once the close handler has run, no step sends a message to either
\* socket.
C9_NoSendAfterClosureBegins ==
    [][closureBegun => (toClient' = toClient /\ toServer' = toServer)]_vars

\* A message event was handled after closure had begun, and nothing was sent.
C9_Witness ==
    /\ closureBegun
    /\ last.kind = "message"
    /\ last.sent = 0
    /\ last.destBefore \in {"CLOSING", "CLOSED"}

\* handleWebSocket has returned and the relay is over: it answered 502, or
\* the client socket is closed.
RelayEnded ==
    /\ pc = "returned"
    /\ response = "502" \/ clientSocket = "CLOSED"

\* C10: on every exit path no upstream socket and no upstream response
\* remains open.
C10_UpstreamReleased ==
    RelayEnded => (~upstreamBodyOpen /\ serverSocket # "OPEN")

\* C19: termination is idempotent: over every sequence of close and error
\* events on a pair the relay calls close() on each socket at most once and
\* only while that socket is OPEN, and an event handled while both sockets are
\* already closing or closed changes nothing.
C19_CloseAtMostOnceOnlyWhenOpen ==
    /\ Len(clientCloseCalls) <= 1
    /\ Len(serverCloseCalls) <= 1
    /\ (PairCreated /\ last.kind \in {"close", "error"}) =>
          /\ last.clientCalls = 1 => last.clientBefore = "OPEN"
          /\ last.serverCalls = 1 => last.serverBefore = "OPEN"
          /\ (last.clientBefore \in {"CLOSING", "CLOSED"}
                /\ last.serverBefore \in {"CLOSING", "CLOSED"}) =>
                 /\ last.clientCalls = 0 /\ last.serverCalls = 0
                 /\ last.clientAfter = last.clientBefore
                 /\ last.serverAfter = last.serverBefore

\* A client error closed the upstream once; the close event that follows the
\* error found both sockets closing or closed and called nothing.
C19_Witness ==
    /\ errorHandled /\ pendingClose = "none"
    /\ last.kind = "close" /\ last.side = "client" /\ last.code = AfterErrorEvent[1]
    /\ last.serverBefore = "CLOSING" /\ last.serverCalls = 0
    /\ Len(serverCloseCalls) = 1 /\ Len(clientCloseCalls) = 0

\* C20: the upgrade response is returned only after the upstream handshake
\* has yielded a socket and the handlers of both sockets are registered, so a
\* socket that can deliver events always has its handlers; when the handshake
\* yields no socket the handler returns a 502 and never the upgrade response.
C20_UpgradeResponseOnlyAfterHandlers ==
    /\ response = "101" =>
          (serverResponse = "webSocket" /\ handlers /\ serverSocket # "NONE")
    /\ clientSocket = "OPEN" => handlers
    /\ serverSocket # "NONE" => handlers
    /\ (pc = "returned" /\ serverResponse \in {"plain", "rejected"}) =>
          (response = "502" /\ clientSocket # "OPEN" /\ ~handlers)

\* The upgrade response was returned, the client socket opened, and a message
\* event reached its handler.
C20_Witness ==
    /\ response = "101" /\ handlers
    /\ clientSocket = "OPEN"
    /\ last.kind = "message" /\ last.side = "client" /\ last.sent = 1

\* ------------------------------------------------- properties of requests
Resolved == rpc \in {"resolved", "headers", "fetching", "streaming", "done"}
HeadersBuilt == rpc \in {"headers", "fetching", "streaming", "done"}
Responded == Len(clientResponses) >= 1
TheResponse == clientResponses[1]

\* C11: once the caller of an HTTP request has been cancelled, whether the
\* upstream call is pending or the body is being streamed, no upstream
\* connection of that request remains open.
C11_CancelAbortsUpstream ==
    clientGone => ~upstreamOpen

\* C12: when the upstream fetch rejects, the relay returns a response with
\* status 502 and a non-empty body, and every HTTP request that has ended got
\* exactly one response.
C12_FetchFailureGives502 ==
    /\ Len(clientResponses) <= 1
    /\ (route = "http" /\ rpc = "done") => Len(clientResponses) = 1
    /\ upstreamAnswer.kind = "rejected" =>
          /\ rpc = "done" /\ Len(clientResponses) = 1
          /\ TheResponse.status = 502
          /\ TheResponse.body # ""

\* The fetch of openwebui.ts rejected with an empty error message and the
\* caller got the 502 "Proxy Error: " response.
C12_Witness ==
    /\ upstreamAnswer.kind = "rejected" /\ upstreamAnswer.message = ""
    /\ req.handler = "openwebui"
    /\ Responded /\ TheResponse.status = 502 /\ TheResponse.body = "Proxy Error: "

\* C13: every HTTP request leads to exactly one upstream call, and a redirect
\* answer (3xx with Location) is returned with the same status and Location.
C13_RedirectRelayedNotFollowed ==
    /\ upstreamCalls <= 1
    /\ rpc \in {"fetching", "streaming", "done"} => upstreamCalls = 1
    /\ (upstreamAnswer.kind = "response" /\ IsRedirect(upstreamAnswer)) =>
          /\ Responded
          /\ TheResponse.status = upstreamAnswer.status
          /\ GetHeader(TheResponse.headers, "Location")
                = GetHeader(upstreamAnswer.headers, "Location")

\* The upstream answered 302 with Location /x and the caller got that.
C13_Witness ==
    /\ upstreamAnswer.kind = "response" /\ upstreamAnswer.status = 302
    /\ upstreamCalls = 1
    /\ Responded /\ TheResponse.status = 302
    /\ GetHeader(TheResponse.headers, "Location") = "/x"

\* C14: the outbound X-Forwarded-Proto is the scheme the caller connected
\* with and X-Forwarded-For is the caller's address, whatever the inbound
\* request carried in these headers.
C14_ForwardedForAndProto ==
    (HeadersBuilt /\ req.handler = "openwebui") =>
        /\ GetHeader(proxyHeaders, "X-Forwarded-For") = req.remoteAddr
        /\ GetHeader(proxyHeaders, "X-Forwarded-Proto") = SliceLast(req.url.protocol)

\* C15: the outbound Host is the configured target's authority and the
\* outbound Origin is the configured target's scheme and authority, for plain
\* HTTP and for WebSocket-upgrade requests.
C15_HostAndOriginOfTarget ==
    (HeadersBuilt /\ req.handler = "openwebui") =>
        /\ GetHeader(proxyHeaders, "Host") = target.host
        /\ GetHeader(proxyHeaders, "Origin") = UrlOrigin(target)

\* The request carries an upgrade header whose value is "websocket" in any
\* letter case.
AsksForWebSocket ==
    /\ "upgrade" \in DOMAIN req.headers
    /\ req.headers["upgrade"] \in {"websocket", "WebSocket"}

\* The ws/wss scheme that belongs to the target's scheme.
MappedProtocol == IF target.protocol = "https:" THEN "wss:" ELSE "ws:"

PathQueryAuthorityKept ==
    /\ targetUrl.pathname = req.url.pathname
    /\ targetUrl.search = req.url.search
    /\ targetUrl.host = target.host

\* C16 (as stated): the upstream URL has the request's path and query and the
\* target's authority; its scheme is the target's for plain HTTP requests and
\* the mapped ws/wss scheme for every request whose upgrade header is
\* "websocket".
C16_UpstreamUrl ==
    Resolved =>
        /\ PathQueryAuthorityKept
        /\ targetUrl.protocol = (IF AsksForWebSocket THEN MappedProtocol ELSE target.protocol)

\* C16 (amended): path, query and authority as stated for both handlers; the
\* scheme is mapped to ws/wss for upgrade requests by requestHandler of
\* openwebui.ts only, while the handler of deepsearch.ts never looks at the
\* upgrade header and always keeps the target's scheme.
C16_UpstreamUrlPerHandler ==
    Resolved =>
        /\ PathQueryAuthorityKept
        /\ targetUrl.protocol =
              (IF req.handler = "openwebui" /\ AsksForWebSocket
                 THEN MappedProtocol ELSE target.protocol)
        /\ route = (IF req.handler = "openwebui" /\ AsksForWebSocket
                      THEN "websocket" ELSE "http")

\* An upgrade request ("WebSocket") that came in over http for /api/x?q=1 is
\* resolved against the https target to wss with the same path and query.
C16_Witness ==
    /\ Resolved /\ req.handler = "openwebui"
    /\ req.headers = ("host" :> "127.0.0.1:8080" @@ "upgrade" :> "WebSocket")
    /\ req.url.protocol = "http:" /\ req.url.pathname = "/api/x" /\ req.url.search = "?q=1"
    /\ target.protocol = "https:"
    /\ targetUrl = [protocol |-> "wss:", host |-> "up.example",
                    pathname |-> "/api/x", search |-> "?q=1"]

RequestOrigin == GetHeader(req.headers, "Origin")

\* The response has the CORS headers that belong to the request Origin o.
CorsFor(res, o) ==
    /\ GetHeader(res.headers, "Access-Control-Allow-Credentials") = "true"
    /\ IF o = Null
         THEN GetHeader(res.headers, "Access-Control-Allow-Origin") = "*"
         ELSE /\ GetHeader(res.headers, "Access-Control-Allow-Origin") = o
              /\ GetHeader(res.headers, "Vary") = "Origin"

\* C17 (as stated): every response of the HTTP relay carries the CORS policy
\* for the request's Origin header.
C17_EveryResponseHasCors ==
    Responded => CorsFor(TheResponse, RequestOrigin)

\* C17 (amended): every response that handleHttp of openwebui.ts builds from
\* an upstream response carries the CORS policy, where an empty Origin header
\* counts as a missing one; the 502 response of the catch block carries no
\* CORS header, and the handler of deepsearch.ts returns the upstream's
\* headers as they are.
C17_RelayedResponseHasCors ==
    Responded =>
        /\ (req.handler = "openwebui" /\ upstreamAnswer.kind = "response") =>
               CorsFor(TheResponse, IF RequestOrigin = "" THEN Null ELSE RequestOrigin)
        /\ upstreamAnswer.kind = "rejected" =>
               ~HasHeader(TheResponse.headers, "Access-Control-Allow-Origin")
        /\ (req.handler = "deepsearch" /\ upstreamAnswer.kind = "response") =>
               TheResponse.headers = upstreamAnswer.headers

\* A request with Origin https://app.example got the upstream's 404, whose own
\* Access-Control-Allow-Origin was replaced by the request's origin.
C17_Witness ==
    /\ Responded /\ req.handler = "openwebui"
    /\ RequestOrigin = "https://app.example"
    /\ upstreamAnswer.kind = "response" /\ upstreamAnswer.status = 404
    /\ GetHeader(upstreamAnswer.headers, "Access-Control-Allow-Origin") = "https://other.example"
    /\ GetHeader(TheResponse.headers, "Access-Control-Allow-Origin") = "https://app.example"
    /\ GetHeader(TheResponse.headers, "Vary") = "Origin"

\* The headers createProxyHeaders sets itself.
RewrittenNames == {"host", "origin", "x-forwarded-for", "x-forwarded-proto", "user-agent"}

\* C18: the header rewrite is idempotent: applied to its own output with the
\* same target and caller address it gives that output again; and it copies
\* the inbound headers it does not rewrite as they are.
C18_RewriteIdempotent ==
    (HeadersBuilt /\ req.handler = "openwebui") =>
        /\ createProxyHeaders(proxyHeaders, targetUrl, req.remoteAddr) = proxyHeaders
        /\ DOMAIN proxyHeaders = DOMAIN req.headers \cup RewrittenNames
        /\ \A k \in DOMAIN req.headers \ RewrittenNames : proxyHeaders[k] = req.headers[k]

\* A request without User-Agent but with the mobile hint and with inbound
\* forwarding headers was rewritten: mobile User-Agent, forwarding headers
\* replaced.
C18_Witness ==
    /\ HeadersBuilt /\ req.handler = "openwebui"
    /\ ~HasHeader(req.headers, "User-Agent")
    /\ GetHeader(req.headers, "sec-ch-ua-mobile") = "?1"
    /\ GetHeader(req.headers, "X-Forwarded-For") = "10.0.0.1"
    /\ GetHeader(proxyHeaders, "User-Agent") = MobileUA
    /\ GetHeader(proxyHeaders, "X-Forwarded-For") = RemoteAddr

====
